---- MODULE Spec2Model ----
(***************************************************************************)
(* Model of the wpp-site live-picks page.                                  *)
(*                                                                         *)
(*   src/app/page.tsx  Home: refresh scheduling (doFetch, the debounce of  *)
(*                     the target probability, the auto-refresh interval   *)
(*                     timer, the error/loading early returns), sortRows,  *)
(*                     rowsToCsv.                                          *)
(*   src/lib/wpp.ts    fetchReport, fetchGarbage: the two backend calls of *)
(*                     one refresh cycle and their error messages.         *)
(*                                                                         *)
(* Spec      is the Home component as a state machine.  One action is one  *)
(*           turn of the browser's event loop: a user event, a timer       *)
(*           callback or a settled promise, together with the render and   *)
(*           the effects React runs for the state it changed.              *)
(* SpecTable is the table layer (sortRows, rowsToCsv) applied to rows      *)
(*           drawn from a bounded set of sample rows.                      *)
(*                                                                         *)
(* Numbers: a target probability is kept in hundredths (0.65 is 65).       *)
(***************************************************************************)
EXTENDS Integers, Sequences, FiniteSets, TLC

VARIABLES
    mounted,          \* the Home component is mounted
    metric,           \* useState<Metric>("spread")
    target,           \* useState(0.65), in hundredths
    debouncedTarget,  \* the state v inside useDebounced(target, 250)
    debounceArmed,    \* the setTimeout of useDebounced is pending
    fire, watch, garbage, byTier, rate, cache,   \* the displayed FetchResult
    err,              \* useState<string | null>(null); NoErr is null
    loading,          \* useState(true)
    lastUpdated,      \* useState<Date | null>(null); 0 is null
    autoRefresh,      \* useState(true)
    refreshSecs,      \* useState(60)
    timerRef,         \* useRef<number | null>(null); 0 is null
    armed,            \* the interval timers window.setInterval has armed
    inflight,         \* the refresh cycles whose Promise.all has not settled
    ignored,          \* calls still pending after their Promise.all rejected
    nextReq,          \* the number the next call of doFetch gets
    anyFailed,        \* history: some refresh cycle has failed
    burst,            \* history: how many changes of target the latest run of
                      \* changes between two debounce expiries has: "none",
                      \* "one" or "several"
    sortKey, sortDir, \* useState<SortKey>, useState<"asc" | "desc">
    rows,             \* the rows handed to Table / exportCsv
    sorted,           \* the result of sortRows(rows)
    csv,              \* the result of rowsToCsv(rows)
    titles,           \* the title={explain(r)} of the rendered rows, in order
    plays,            \* data.plays of the /best_edges response the rows were
                      \* mapped from; <<>> for rows that are not mapped
    download          \* a.download of the last export; <<>> before the first

homeVars == <<mounted, metric, target, debouncedTarget, debounceArmed,
              fire, watch, garbage, byTier, rate, cache, err, loading,
              lastUpdated, autoRefresh, refreshSecs, timerRef, armed,
              inflight, ignored, nextReq, anyFailed, burst>>
homeVarsButIgnored ==
    <<mounted, metric, target, debouncedTarget, debounceArmed,
      fire, watch, garbage, byTier, rate, cache, err, loading,
      lastUpdated, autoRefresh, refreshSecs, timerRef, armed,
      inflight, nextReq, anyFailed, burst>>
tableVars == <<sortKey, sortDir, rows, sorted, csv, titles, plays, download>>
vars == <<homeVars, tableVars>>

----------------------------------------------------------------------------
(* Bounds of the model *)

\* doFetch is called at most MaxFetches times in a behaviour
MaxFetches == 3

(* Program constants *)

GarbageN == 25
MinRefreshSecs == 5
InitTarget == 65
InitRefreshSecs == 60

Metrics == {"spread", "ml", "total"}
\* values the range input (0.55 .. 0.75, step 0.01) can take, in hundredths
Targets == {65, 70}
\* values typed into the "every N s" input
RefreshChoices == {3, 60}

NoErr == <<>>

Max(a, b) == IF a >= b THEN a ELSE b

----------------------------------------------------------------------------
(* src/lib/wpp.ts: the two backend calls *)

\* what the backend can answer to one call: a status, and whether res.json()
\* parses the body.  The unparsable body stands for every rejection that is
\* not the throw on !res.ok (a fetch() that rejects is another).
Responses ==
    {[status |-> 200, json |-> TRUE], [status |-> 200, json |-> FALSE],
     [status |-> 500, json |-> FALSE]}

ResOk(resp) == resp.status >= 200 /\ resp.status <= 299

\* CallOutcome without the res.ok test: the body is parsed whatever the status
CallOutcomeNoStatusCheck(label, resp) ==
    IF ~resp.json THEN [ok |-> FALSE, message |-> <<"Unexpected token">>]
    ELSE [ok |-> TRUE, message |-> NoErr]

\* the outcome of the async function for one response: fulfilled, or rejected
\* with the message of the Error thrown
CallOutcome(label, resp) ==
    IF ~ResOk(resp)
    THEN [ok |-> FALSE, message |-> <<"WPP ", label, " failed: ", resp.status>>]
    ELSE IF ~resp.json THEN [ok |-> FALSE, message |-> <<"Unexpected token">>]
    ELSE [ok |-> TRUE, message |-> NoErr]

ReportLabel == "/report"
GarbageLabel == "/best_edges (garbage)"

\* fetchReport(targetProb, metric): the request it sends
fetchReport(targetProb, m) ==
    [path |-> "/report", target_prob |-> targetProb, metric |-> m, st |-> "pending"]

\* fetchGarbage(metric, n, targetProb): the request it sends
fetchGarbage(m, n, targetProb) ==
    [path |-> "/best_edges", tier |-> "garbage", metric |-> m, n |-> n,
     target_prob |-> targetProb, st |-> "pending"]

----------------------------------------------------------------------------
(* src/app/page.tsx: the values of a Row *)

(* A field value is null, undefined (the key is missing: the Fire and Watch   *)
(* rows are the backend's JSON as it came), a number, a string or a boolean.  *)
(* A number is kept in thousandths (0.65 is 650, -3.5 is -3500).  A string is *)
(* the sequence of its characters.                                            *)
Null == [t |-> "null", n |-> 0, s |-> <<>>, b |-> FALSE]
Undefined == [t |-> "undefined", n |-> 0, s |-> <<>>, b |-> FALSE]
Num(k) == [t |-> "number", n |-> k, s |-> <<>>, b |-> FALSE]
Str(chars) == [t |-> "string", n |-> 0, s |-> chars, b |-> FALSE]
Bool(b) == [t |-> "boolean", n |-> 0, s |-> <<>>, b |-> b]

\* v == null, v != null
IsNullish(v) == v.t \in {"null", "undefined"}

DigitChars == <<"0", "1", "2", "3", "4", "5", "6", "7", "8", "9">>

RECURSIVE Digits(_)
Digits(n) == IF n < 10 THEN <<DigitChars[n + 1]>>
             ELSE Digits(n \div 10) \o <<DigitChars[(n % 10) + 1]>>

\* the digits after the decimal point of f thousandths, 0 < f < 1000
Fraction(f) ==
    LET d1 == DigitChars[(f \div 100) + 1]
        d2 == DigitChars[((f \div 10) % 10) + 1]
        d3 == DigitChars[(f % 10) + 1]
    IN  IF f % 10 # 0 THEN <<d1, d2, d3>>
        ELSE IF f % 100 # 0 THEN <<d1, d2>>
        ELSE <<d1>>

\* String(v) of a number
NumToStr(k) ==
    LET a == IF k < 0 THEN -k ELSE k
    IN  (IF k < 0 THEN <<"-">> ELSE <<>>)
        \o Digits(a \div 1000)
        \o (IF a % 1000 = 0 THEN <<>> ELSE <<".">> \o Fraction(a % 1000))

\* String(v)
ToStr(v) ==
    CASE v.t = "null" -> <<"n", "u", "l", "l">>
      [] v.t = "undefined" -> <<"u", "n", "d", "e", "f", "i", "n", "e", "d">>
      [] v.t = "number" -> NumToStr(v.n)
      [] v.t = "boolean" -> IF v.b THEN <<"t", "r", "u", "e">>
                            ELSE <<"f", "a", "l", "s", "e">>
      [] v.t = "string" -> v.s

\* the order String.prototype.localeCompare gives the characters the sample
\* rows use: white space and punctuation, digits, letters
Collation ==
    <<"\n", " ", "-", ",", ".", "\"", "@", "+">> \o DigitChars \o
    <<"a", "A", "b", "B", "c", "C", "d", "D", "e", "E", "f", "F", "g", "G", "h", "H", "i", "I", "j", "J", "k", "K", "l", "L", "m", "M",
      "n", "N", "o", "O", "p", "P", "q", "Q", "r", "R", "s", "S", "t", "T", "u", "U", "v", "V", "w", "W", "x", "X", "y", "Y", "z", "Z">>

Rank(ch) == CHOOSE i \in 1..Len(Collation) : Collation[i] = ch

\* a.localeCompare(b): negative, zero or positive
RECURSIVE LocaleCompare(_, _)
LocaleCompare(a, b) ==
    IF a = <<>> THEN (IF b = <<>> THEN 0 ELSE -1)
    ELSE IF b = <<>> THEN 1
    ELSE IF Rank(Head(a)) < Rank(Head(b)) THEN -1
    ELSE IF Rank(Head(a)) > Rank(Head(b)) THEN 1
    ELSE LocaleCompare(Tail(a), Tail(b))

----------------------------------------------------------------------------
(* src/app/page.tsx: sortRows *)

\* the keys of the headers array: the columns a click can sort by
HeaderKeys ==
    <<"side", "matchup", "market_spread_home", "fair_home_spread",
      "required_buy_points", "buy_to_line", "p_current", "p_target", "p_buy",
      "price_est", "price_max_ok", "ev_ok">>

\* va, vb of the comparator: the synthetic key matchup is `${away} @ ${home}`
KeyValue(r, key) ==
    IF key = "matchup"
    THEN Str(ToStr(r.away) \o <<" ", "@", " ">> \o ToStr(r.home))
    ELSE r[key]

\* the comparator with the null tests after the direction is applied
CompareNullByDirection(a, b, key, dir) ==
    LET d == IF dir = "asc" THEN 1 ELSE -1
        va == KeyValue(a, key)
        vb == KeyValue(b, key)
    IN  IF IsNullish(va) THEN 1 * d
        ELSE IF IsNullish(vb) THEN (-1) * d
        ELSE IF va.t = "number" /\ vb.t = "number" THEN (va.n - vb.n) * d
        ELSE LocaleCompare(ToStr(va), ToStr(vb)) * d

\* the comparator sortRows hands to Array.prototype.sort
Compare(a, b, key, dir) ==
    LET d == IF dir = "asc" THEN 1 ELSE -1
        va == KeyValue(a, key)
        vb == KeyValue(b, key)
    IN  IF IsNullish(va) THEN 1
        ELSE IF IsNullish(vb) THEN -1
        ELSE IF va.t = "number" /\ vb.t = "number" THEN (va.n - vb.n) * d
        ELSE LocaleCompare(ToStr(va), ToStr(vb)) * d

(* Array.prototype.sort.  The comparator answers 1 both ways for two rows     *)
(* whose key is null, so it is not a consistent comparator and the order the  *)
(* engine produces is implementation-defined.  The model follows the two      *)
(* algorithms engines use on short arrays: insertion of each element into the *)
(* sorted prefix, and a stable merge sort.                                    *)
SortAlgorithms == {"insertion", "merge"}

\* x inserted into the sorted sequence seq: x moves left while it compares
\* less than its left neighbour
RECURSIVE Insert(_, _, _, _)
Insert(seq, x, key, dir) ==
    IF seq = <<>> THEN <<x>>
    ELSE IF Compare(x, seq[Len(seq)], key, dir) < 0
         THEN Insert(SubSeq(seq, 1, Len(seq) - 1), x, key, dir) \o <<seq[Len(seq)]>>
         ELSE seq \o <<x>>

RECURSIVE InsertionSort(_, _, _)
InsertionSort(seq, key, dir) ==
    IF seq = <<>> THEN <<>>
    ELSE Insert(InsertionSort(SubSeq(seq, 1, Len(seq) - 1), key, dir),
                seq[Len(seq)], key, dir)

\* the merge of two sorted runs: the head of the right run is taken only when
\* it compares less than the head of the left one
RECURSIVE Merge(_, _, _, _)
Merge(l, r, key, dir) ==
    IF l = <<>> THEN r
    ELSE IF r = <<>> THEN l
    ELSE IF Compare(Head(r), Head(l), key, dir) < 0
         THEN <<Head(r)>> \o Merge(l, Tail(r), key, dir)
         ELSE <<Head(l)>> \o Merge(Tail(l), r, key, dir)

RECURSIVE MergeSort(_, _, _)
MergeSort(seq, key, dir) ==
    IF Len(seq) <= 1 THEN seq
    ELSE LET mid == Len(seq) \div 2
         IN  Merge(MergeSort(SubSeq(seq, 1, mid), key, dir),
                   MergeSort(SubSeq(seq, mid + 1, Len(seq)), key, dir), key, dir)

\* sortRows(rows) in a render whose state is sortKey = key, sortDir = dir
sortRows(rs, key, dir, algorithm) ==
    IF algorithm = "insertion" THEN InsertionSort(rs, key, dir)
    ELSE MergeSort(rs, key, dir)

----------------------------------------------------------------------------
(* src/lib/wpp.ts: mapPlayToRow *)

(* A raw play is a record of its keys tier, recommendation, game, market,     *)
(* fair, required, prob, pricing and reason.  A key that is missing holds     *)
(* Undefined; game, market, fair, required, prob and pricing hold Undefined,  *)
(* Null or an object, a record of that object's keys; market.spread is again  *)
(* Undefined, Null or an object with the key home.                            *)

\* a ?? b
Coalesce(a, b) == IF a = Null \/ a = Undefined THEN b ELSE a

\* o?.k
Get(o, k) == IF o = Null \/ o = Undefined THEN Undefined ELSE o[k]

\* the objects game, required, pricing, prob, market, fair: p?.key ?? {}
Sub(p, key) == Get(p, key)

\* market?.spread_home ?? market?.spread?.home ?? null
SpreadHome(market) ==
    Coalesce(Coalesce(Get(market, "spread_home"), Get(Get(market, "spread"), "home")), Null)

\* mapPlayToRow with null for every field that is absent
mapPlayToRowAllNull(p) ==
    [tier |-> Coalesce(Get(p, "tier"), Str(<<"G", "a", "r", "b", "a", "g", "e">>)),
     side |-> Coalesce(Get(p, "recommendation"), Null),
     away |-> Coalesce(Get(Sub(p, "game"), "away"), Null),
     home |-> Coalesce(Get(Sub(p, "game"), "home"), Null),
     market_spread_home |-> SpreadHome(Sub(p, "market")),
     fair_home_spread |-> Coalesce(Get(Sub(p, "fair"), "home_spread"), Null),
     required_buy_points |-> Coalesce(Get(Sub(p, "required"), "buy_points"), Null),
     buy_to_line |-> Coalesce(Get(Sub(p, "required"), "buy_to_line"), Null),
     p_current |-> Coalesce(Get(Sub(p, "prob"), "current"), Null),
     p_target |-> Coalesce(Get(Sub(p, "prob"), "target"), Null),
     p_buy |-> Coalesce(Get(Sub(p, "prob"), "buy"), Null),
     price_est |-> Coalesce(Get(Sub(p, "pricing"), "final_price"), Null),
     price_max_ok |-> Coalesce(Get(Sub(p, "pricing"), "max_acceptable_price"), Null),
     ev_ok |-> Coalesce(Get(Sub(p, "pricing"), "ev_ok"), Null),
     reason |-> Coalesce(Get(p, "reason"), Null)]

\* mapPlayToRow(p)
mapPlayToRow(p) ==
    [tier |-> Coalesce(Get(p, "tier"), Str(<<"G", "a", "r", "b", "a", "g", "e">>)),
     side |-> Coalesce(Get(p, "recommendation"), Str(<<"n", "o", "n", "e">>)),
     away |-> Coalesce(Get(Sub(p, "game"), "away"), Str(<<>>)),
     home |-> Coalesce(Get(Sub(p, "game"), "home"), Str(<<>>)),
     market_spread_home |-> SpreadHome(Sub(p, "market")),
     fair_home_spread |-> Coalesce(Get(Sub(p, "fair"), "home_spread"), Null),
     required_buy_points |-> Coalesce(Get(Sub(p, "required"), "buy_points"), Null),
     buy_to_line |-> Coalesce(Get(Sub(p, "required"), "buy_to_line"), Null),
     p_current |-> Coalesce(Get(Sub(p, "prob"), "current"), Null),
     p_target |-> Coalesce(Get(Sub(p, "prob"), "target"), Null),
     p_buy |-> Coalesce(Get(Sub(p, "prob"), "buy"), Null),
     price_est |-> Coalesce(Get(Sub(p, "pricing"), "final_price"), Null),
     price_max_ok |-> Coalesce(Get(Sub(p, "pricing"), "max_acceptable_price"), Null),
     ev_ok |-> Coalesce(Get(Sub(p, "pricing"), "ev_ok"), Null),
     reason |-> Coalesce(Get(p, "reason"), Null)]

\* plays.map(mapPlayToRow)
MapPlays(ps) == [i \in 1..Len(ps) |-> mapPlayToRow(ps[i])]

----------------------------------------------------------------------------
(* src/app/page.tsx: rowsToCsv *)

(* The CSV text is a sequence of characters.  A header name, which is a       *)
(* literal of the program and holds no comma, quote or line feed, is one      *)
(* element of it.                                                             *)

\* the header list the specification describes: no tier column
CsvHeadersWithoutTier ==
    <<"side", "away", "home", "market_spread_home", "fair_home_spread",
      "required_buy_points", "buy_to_line", "p_current", "p_target", "p_buy",
      "price_est", "price_max_ok", "ev_ok">>

\* const headers
CsvHeaders ==
    <<"tier", "side", "away", "home", "market_spread_home", "fair_home_spread",
      "required_buy_points", "buy_to_line", "p_current", "p_target", "p_buy",
      "price_est", "price_max_ok", "ev_ok">>

\* str.replaceAll('"', '""')
RECURSIVE DoubleQuotes(_)
DoubleQuotes(str) ==
    IF str = <<>> THEN <<>>
    ELSE (IF Head(str) = "\"" THEN <<"\"", "\"">> ELSE <<Head(str)>>)
         \o DoubleQuotes(Tail(str))

\* esc without the doubling of the quotes
EscNoDoubling(v) == IF v.t = "null" \/ v.t = "undefined" THEN <<>> ELSE ToStr(v)

\* const esc
Esc(v) == IF v.t = "null" \/ v.t = "undefined" THEN <<>> ELSE DoubleQuotes(ToStr(v))

\* parts.join(sep), parts a sequence of texts
RECURSIVE Join(_, _)
Join(parts, sep) ==
    IF parts = <<>> THEN <<>>
    ELSE IF Len(parts) = 1 THEN parts[1]
    ELSE parts[1] \o <<sep>> \o Join(Tail(parts), sep)

\* headers.map(h => `"${esc(r[h])}"`).join(",")
CsvRow(r, headers) ==
    Join([i \in 1..Len(headers) |-> <<"\"">> \o Esc(r[headers[i]]) \o <<"\"">>], ",")

\* rowsToCsv with a line feed after the last line as well
rowsToCsvLineFeedAtEnd(rs) ==
    LET headers == CsvHeaders
        lines == <<Join([i \in 1..Len(headers) |-> <<headers[i]>>], ",")>>
                 \o [i \in 1..Len(rs) |-> CsvRow(rs[i], headers)]
    IN  Join(lines, "\n") \o <<"\n">>

\* rowsToCsv(rows)
rowsToCsv(rs) ==
    LET headers == CsvHeaders
        lines == <<Join([i \in 1..Len(headers) |-> <<headers[i]>>], ",")>>
                 \o [i \in 1..Len(rs) |-> CsvRow(rs[i], headers)]
    IN  Join(lines, "\n")

----------------------------------------------------------------------------
(* src/app/page.tsx: explain, fmtP, fmtNum, fmtPrice *)

(* A text explain returns is a sequence: each literal fragment of a template  *)
(* is one element, a formatted value is its characters.  TLA+ strings are     *)
(* ASCII: the em dash U+2014 is written EmDash and the sign U+2265 ">=".      *)
EmDash == "(U+2014)"

\* t.toFixed(1) of a number given in tenths
ToFixed1(t) ==
    LET a == IF t < 0 THEN -t ELSE t
    IN  (IF t < 0 THEN <<"-">> ELSE <<>>) \o Digits(a \div 10) \o <<".", DigitChars[(a % 10) + 1]>>

\* fmtP: v * 100 of v thousandths is v tenths
fmtP(v) == IF IsNullish(v) THEN <<EmDash>> ELSE ToFixed1(v.n) \o <<"%">>

fmtNum(v) == IF IsNullish(v) THEN <<EmDash>> ELSE ToStr(v)

fmtPrice(v) ==
    IF IsNullish(v) THEN <<EmDash>>
    ELSE IF v.n > 0 THEN <<"+">> \o ToStr(v) ELSE ToStr(v)

\* the truth value a condition gives v
Truthy(v) ==
    CASE v.t = "string" -> v.s # <<>>
      [] v.t = "number" -> v.n # 0
      [] v.t = "boolean" -> v.b
      [] OTHER -> FALSE

\* r.tier === name
TierIs(r, name) == r.tier = Str(name)

\* evPart with the test of the prices left out
EvPartIgnoresPrices(r) ==
    IF ~IsNullish(r.ev_ok)
    THEN <<" EV check at est price ">> \o fmtPrice(r.price_est) \o <<" vs max ">>
         \o fmtPrice(r.price_max_ok) \o <<": ", IF Truthy(r.ev_ok) THEN "OK" ELSE "FAIL", ".">>
    ELSE <<>>

\* const evPart
EvPart(r) ==
    IF ~IsNullish(r.price_est) /\ ~IsNullish(r.price_max_ok) /\ ~IsNullish(r.ev_ok)
    THEN <<" EV check at est price ">> \o fmtPrice(r.price_est) \o <<" vs max ">>
         \o fmtPrice(r.price_max_ok) \o <<": ", IF Truthy(r.ev_ok) THEN "OK" ELSE "FAIL", ".">>
    ELSE <<>>

\* const base of a Fire row
FireBase(r) ==
    <<"Fire because p(now) ">> \o fmtP(r.p_current) \o <<" >= p(target) ">>
    \o fmtP(r.p_target) \o <<" (no/cheap buys).">>

\* const base of a Watch row
WatchBase(r) ==
    <<"Watch because it needs buys to reach target: buy ">> \o fmtNum(r.required_buy_points)
    \o <<" pts to ">> \o fmtNum(r.buy_to_line) \o <<"; p(buy) ">> \o fmtP(r.p_buy)
    \o <<" >= p(target) ">> \o fmtP(r.p_target) \o <<".">>

\* the text computed for a row that is neither Fire nor Watch
GarbageComputed(r) ==
    IF ~IsNullish(r.p_buy) /\ ~IsNullish(r.p_target) /\ r.p_buy.n < r.p_target.n
    THEN <<"Garbage because even after buying, p(buy) ">> \o fmtP(r.p_buy)
         \o <<" < p(target) ">> \o fmtP(r.p_target) \o <<".">>
    ELSE <<"Garbage because required buy or price violates rules, or value insufficient.">>

\* the Garbage part with the server reason used only as the last resort
GarbageTextReasonLast(r) ==
    IF ~IsNullish(r.p_buy) /\ ~IsNullish(r.p_target) /\ r.p_buy.n < r.p_target.n
    THEN GarbageComputed(r)
    ELSE IF Truthy(r.reason) THEN r.reason.s
    ELSE GarbageComputed(r)

\* the part of explain after the Fire and Watch branches
GarbageText(r) ==
    IF Truthy(r.reason) THEN r.reason.s ELSE GarbageComputed(r)

\* explain(r)
explain(r) ==
    IF TierIs(r, <<"F", "i", "r", "e">>) THEN FireBase(r) \o EvPart(r)
    ELSE IF TierIs(r, <<"W", "a", "t", "c", "h">>) THEN WatchBase(r) \o EvPart(r)
    ELSE GarbageText(r)

----------------------------------------------------------------------------
(* src/app/page.tsx: Home *)

\* a part of the displayed FetchResult, named by the request that produced it;
\* req 0 is the initial value of the useState
Part(name, req, call) ==
    [part |-> name, req |-> req, metric |-> call.metric, target_prob |-> call.target_prob]
InitialPart(name) ==
    [part |-> name, req |-> 0, metric |-> "none", target_prob |-> 0]

\* the early returns of Home: the controls and tables are rendered only when
\* there is no error and loading is false
UiVisible == mounted /\ err = NoErr /\ ~loading

\* the refresh cycle doFetch starts: Promise.all of the two calls
NewCycle(id, m, t) ==
    [id |-> id,
     report |-> fetchReport(t, m),
     garbage |-> fetchGarbage(m, GarbageN, t)]

\* doFetch() called from a render whose metric is m and debouncedTarget is t
doFetch(m, t) ==
    /\ nextReq <= MaxFetches
    /\ loading' = TRUE
    /\ err' = NoErr
    /\ inflight' = inflight \cup {NewCycle(nextReq, m, t)}
    /\ nextReq' = nextReq + 1
    /\ UNCHANGED ignored

NoFetch == UNCHANGED <<loading, err, inflight, ignored, nextReq>>

ClearInterval(timers, h) == {x \in timers : x.id # h}

\* the handle window.setInterval returns: a positive number that names no
\* armed timer and that timerRef does not hold (the browser never reuses a
\* handle; the model reuses one only when nothing refers to it any more)
FreshHandle(timers) ==
    LET used == {x.id : x \in timers} \cup {timerRef}
        free == {h \in 1..(Cardinality(timers) + 2) : h \notin used}
    IN  CHOOSE h \in free : \A g \in free : h <= g

\* TimerEffect whose !autoRefresh branch forgets the timer without clearing it,
\* and whose cleanup is missing
TimerEffectNoClear(auto, secs, m, t) ==
    LET h == FreshHandle(armed)
    IN  IF ~auto
        THEN /\ armed' = armed
             /\ timerRef' = 0
        ELSE /\ armed' = ClearInterval(armed, timerRef) \cup
                    {[id |-> h, metric |-> m, target_prob |-> t,
                      period |-> Max(MinRefreshSecs, secs) * 1000]}
             /\ timerRef' = h

\* TimerEffect without the Math.max(5, ...) around refreshSecs
TimerEffectNoMinimum(auto, secs, m, t) ==
    LET afterCleanup == IF autoRefresh /\ timerRef # 0
                        THEN ClearInterval(armed, timerRef) ELSE armed
        cleared == IF timerRef # 0 THEN ClearInterval(afterCleanup, timerRef)
                   ELSE afterCleanup
        h == FreshHandle(cleared)
    IN  IF ~auto
        THEN /\ armed' = cleared
             /\ timerRef' = 0
        ELSE /\ armed' = cleared \cup
                    {[id |-> h, metric |-> m, target_prob |-> t,
                      period |-> secs * 1000]}
             /\ timerRef' = h

\* the auto refresh timer effect, run for new dependency values
\* [auto, secs, m, t]; the cleanup of the previous run comes first (there is
\* one only if that run got past the !autoRefresh return)
TimerEffect(auto, secs, m, t) ==
    LET afterCleanup == IF autoRefresh /\ timerRef # 0
                        THEN ClearInterval(armed, timerRef) ELSE armed
        cleared == IF timerRef # 0 THEN ClearInterval(afterCleanup, timerRef)
                   ELSE afterCleanup
        h == FreshHandle(cleared)
    IN  IF ~auto
        THEN /\ armed' = cleared
             /\ timerRef' = 0
        ELSE /\ armed' = cleared \cup
                    {[id |-> h, metric |-> m, target_prob |-> t,
                      period |-> Max(MinRefreshSecs, secs) * 1000]}
             /\ timerRef' = h

NoTimerChange == UNCHANGED <<timerRef, armed>>

Display == <<fire, watch, garbage, byTier, rate, cache, lastUpdated>>

\* onChange of the metric select
SetMetric(m) ==
    /\ UiVisible
    /\ m # metric
    /\ metric' = m
    /\ doFetch(m, debouncedTarget)
    /\ TimerEffect(autoRefresh, refreshSecs, m, debouncedTarget)
    /\ UNCHANGED <<mounted, target, debouncedTarget, debounceArmed, Display,
                   autoRefresh, refreshSecs, anyFailed, burst, tableVars>>

\* onChange of the target range input: useDebounced clears its timeout and
\* sets a new one
SetTarget(t) ==
    /\ UiVisible
    /\ t # target
    /\ target' = t
    /\ debounceArmed' = TRUE
    /\ burst' = IF ~debounceArmed \/ burst = "none" THEN "one" ELSE "several"
    /\ NoFetch
    /\ NoTimerChange
    /\ UNCHANGED <<mounted, metric, debouncedTarget, Display, autoRefresh,
                   refreshSecs, anyFailed, tableVars>>

\* DebounceFire whose doFetch reads the debouncedTarget of the previous render
DebounceFireStaleClosure ==
    /\ mounted
    /\ debounceArmed
    /\ debounceArmed' = FALSE
    /\ debouncedTarget' = target
    /\ IF target # debouncedTarget
       THEN /\ doFetch(metric, debouncedTarget)
            /\ TimerEffect(autoRefresh, refreshSecs, metric, target)
       ELSE NoFetch /\ NoTimerChange
    /\ UNCHANGED <<mounted, metric, target, Display, autoRefresh, refreshSecs,
                   anyFailed, burst, tableVars>>

\* the timeout of useDebounced expires: setV(val)
DebounceFire ==
    /\ mounted
    /\ debounceArmed
    /\ debounceArmed' = FALSE
    /\ debouncedTarget' = target
    /\ IF target # debouncedTarget
       THEN /\ doFetch(metric, target)
            /\ TimerEffect(autoRefresh, refreshSecs, metric, target)
       ELSE NoFetch /\ NoTimerChange
    /\ UNCHANGED <<mounted, metric, target, Display, autoRefresh, refreshSecs,
                   anyFailed, burst, tableVars>>

\* onChange of the auto-refresh checkbox
ToggleAutoRefresh ==
    /\ UiVisible
    /\ autoRefresh' = ~autoRefresh
    /\ TimerEffect(~autoRefresh, refreshSecs, metric, debouncedTarget)
    /\ NoFetch
    /\ UNCHANGED <<mounted, metric, target, debouncedTarget, debounceArmed,
                   Display, refreshSecs, anyFailed, burst, tableVars>>

\* onChange of the interval input
SetRefreshSecs(s) ==
    /\ UiVisible
    /\ s # refreshSecs
    /\ refreshSecs' = s
    /\ TimerEffect(autoRefresh, s, metric, debouncedTarget)
    /\ NoFetch
    /\ UNCHANGED <<mounted, metric, target, debouncedTarget, debounceArmed,
                   Display, autoRefresh, anyFailed, burst, tableVars>>

\* onClick of "Refresh now"
ManualRefresh ==
    /\ UiVisible
    /\ doFetch(metric, debouncedTarget)
    /\ NoTimerChange
    /\ UNCHANGED <<mounted, metric, target, debouncedTarget, debounceArmed,
                   Display, autoRefresh, refreshSecs, anyFailed, burst, tableVars>>

\* an armed interval timer ticks: () => doFetch() of the render that armed it
Tick(h) ==
    /\ h \in armed
    /\ doFetch(h.metric, h.target_prob)
    /\ NoTimerChange
    /\ UNCHANGED <<mounted, metric, target, debouncedTarget, debounceArmed,
                   Display, autoRefresh, refreshSecs, anyFailed, burst, tableVars>>

\* .then of doFetch, followed by .finally
OnFulfilled(c) ==
    /\ fire' = Part("fire", c.id, c.report)
    /\ watch' = Part("watch", c.id, c.report)
    /\ byTier' = Part("byTier", c.id, c.report)
    /\ rate' = Part("rate", c.id, c.report)
    /\ cache' = Part("cache", c.id, c.report)
    /\ garbage' = Part("garbage", c.id, c.garbage)
    /\ lastUpdated' = c.id
    /\ loading' = FALSE
    /\ UNCHANGED <<err, anyFailed>>

\* OnRejected that also empties the three row sets
OnRejectedClearsRows(c, message) ==
    /\ err' = message
    /\ loading' = FALSE
    /\ anyFailed' = TRUE
    /\ fire' = InitialPart("fire")
    /\ watch' = InitialPart("watch")
    /\ garbage' = InitialPart("garbage")
    /\ UNCHANGED <<byTier, rate, cache, lastUpdated>>

\* .catch of doFetch, followed by .finally
OnRejected(c, message) ==
    /\ err' = message
    /\ loading' = FALSE
    /\ anyFailed' = TRUE
    /\ UNCHANGED Display

\* one of the two calls of cycle c settles; which is "report" or "garbage".
\* Promise.all rejects with the first rejection and fulfils when both calls
\* have fulfilled.  A call still pending when Promise.all rejects stays
\* pending: nothing aborts it, and Promise.all ignores how it settles.
Label(which) == IF which = "report" THEN ReportLabel ELSE GarbageLabel
Other(which) == IF which = "report" THEN "garbage" ELSE "report"

SettleCall(c, which, resp) ==
    LET out == CallOutcome(Label(which), resp)
        done == [c EXCEPT ![which].st = "ok"]
    IN  /\ c \in inflight
        /\ c[which].st = "pending"
        /\ IF ~out.ok
           THEN /\ inflight' = inflight \ {c}
                /\ OnRejected(c, out.message)
           ELSE IF c[Other(which)].st = "ok"
           THEN /\ inflight' = inflight \ {c}
                /\ OnFulfilled(done)
           ELSE /\ inflight' = (inflight \ {c}) \cup {done}
                /\ UNCHANGED <<Display, err, loading, anyFailed>>
        /\ NoTimerChange
        /\ UNCHANGED <<mounted, metric, target, debouncedTarget, debounceArmed,
                       autoRefresh, refreshSecs, nextReq, burst, tableVars>>

\* Spec does not follow the ignored calls
Settle(c, which, resp) == SettleCall(c, which, resp) /\ UNCHANGED ignored

ReportSettles == \E c \in inflight, resp \in Responses : Settle(c, "report", resp)
GarbageSettles == \E c \in inflight, resp \in Responses : Settle(c, "garbage", resp)

\* SpecCalls follows them: ignored records the call left pending by a
\* rejection, with the message its cycle surfaced
SettleTracked(c, which, resp) ==
    /\ SettleCall(c, which, resp)
    /\ ignored' = IF ~CallOutcome(Label(which), resp).ok /\ c[Other(which)].st = "pending"
                  THEN ignored \cup {[id |-> c.id, which |-> Other(which),
                                      message |-> CallOutcome(Label(which), resp).message]}
                  ELSE ignored

ReportSettlesTracked ==
    \E c \in inflight, resp \in Responses : SettleTracked(c, "report", resp)
GarbageSettlesTracked ==
    \E c \in inflight, resp \in Responses : SettleTracked(c, "garbage", resp)

\* a call settles after the Promise.all of its cycle has rejected
LateSettle(z, resp) ==
    /\ z \in ignored
    /\ ignored' = ignored \ {z}
    /\ UNCHANGED <<homeVarsButIgnored, tableVars>>

IgnoredSettles == \E z \in ignored, resp \in Responses : LateSettle(z, resp)

\* an unmount whose effect cleanup does not clear the interval
UnmountKeepsInterval ==
    /\ mounted
    /\ mounted' = FALSE
    /\ debounceArmed' = FALSE
    /\ armed' = armed
    /\ inflight' = {}
    /\ ignored' = {}
    /\ UNCHANGED <<timerRef, loading, err, nextReq>>
    /\ UNCHANGED <<metric, target, debouncedTarget, Display, autoRefresh,
                   refreshSecs, anyFailed, burst, tableVars>>

\* the component unmounts: the cleanups of the effects run.  The cycles still
\* in flight are not aborted, but their state setters do nothing any more, so
\* they leave the model here.
Unmount ==
    /\ mounted
    /\ mounted' = FALSE
    /\ debounceArmed' = FALSE
    /\ armed' = IF autoRefresh /\ timerRef # 0
                THEN ClearInterval(armed, timerRef) ELSE armed
    /\ inflight' = {}
    /\ ignored' = {}
    /\ UNCHANGED <<timerRef, loading, err, nextReq>>
    /\ UNCHANGED <<metric, target, debouncedTarget, Display, autoRefresh,
                   refreshSecs, anyFailed, burst, tableVars>>

ChangeMetric == \E m \in Metrics : SetMetric(m)
ChangeTarget == \E t \in Targets : SetTarget(t)
ChangeRefreshSecs == \E s \in RefreshChoices : SetRefreshSecs(s)
IntervalTick == \E h \in armed : Tick(h)
TableIdle ==
    /\ sortKey = "required_buy_points"
    /\ sortDir = "asc"
    /\ rows = <<>>
    /\ sorted = <<>>
    /\ csv = <<>>
    /\ titles = <<>>
    /\ plays = <<>>
    /\ download = <<>>

\* Home after its first render and the effects of the mount: the debounce
\* timeout is set, doFetch has been called once, the interval timer is armed
Init ==
    /\ mounted = TRUE
    /\ metric = "spread"
    /\ target = InitTarget
    /\ debouncedTarget = InitTarget
    /\ debounceArmed = TRUE
    /\ fire = InitialPart("fire")
    /\ watch = InitialPart("watch")
    /\ garbage = InitialPart("garbage")
    /\ byTier = InitialPart("byTier")
    /\ rate = InitialPart("rate")
    /\ cache = InitialPart("cache")
    /\ err = NoErr
    /\ loading = TRUE
    /\ lastUpdated = 0
    /\ autoRefresh = TRUE
    /\ refreshSecs = InitRefreshSecs
    /\ timerRef = 1
    /\ armed = {[id |-> 1, metric |-> "spread", target_prob |-> InitTarget,
                 period |-> Max(MinRefreshSecs, InitRefreshSecs) * 1000]}
    /\ inflight = {NewCycle(1, "spread", InitTarget)}
    /\ ignored = {}
    /\ nextReq = 2
    /\ anyFailed = FALSE
    /\ burst = "none"
    /\ TableIdle

Next ==
    \/ ChangeMetric
    \/ ChangeTarget
    \/ DebounceFire
    \/ ToggleAutoRefresh
    \/ ChangeRefreshSecs
    \/ ManualRefresh
    \/ IntervalTick
    \/ ReportSettles
    \/ GarbageSettles
    \/ Unmount

Spec == Init /\ [][Next]_vars

\* the refresh cycles and their calls, the ignored ones included, under
\* changes of the metric, ticks and manual refreshes
NextCalls ==
    \/ ChangeMetric
    \/ ManualRefresh
    \/ IntervalTick
    \/ ReportSettlesTracked
    \/ GarbageSettlesTracked
    \/ IgnoredSettles

SpecCalls == Init /\ [][NextCalls]_vars

----------------------------------------------------------------------------
(* The table layer: Table, its header clicks, exportCsv *)

\* the tables hold at most MaxRows rows
MaxRows == 2

\* a Fire row of /report
RowFire ==
    [tier |-> Str(<<"F", "i", "r", "e">>), side |-> Str(<<"h", "o", "m", "e">>), away |-> Str(<<"A">>), home |-> Str(<<"B">>),
     market_spread_home |-> Num(-3500), fair_home_spread |-> Num(-4500),
     required_buy_points |-> Num(0), buy_to_line |-> Null,
     p_current |-> Num(700), p_target |-> Num(650), p_buy |-> Null,
     price_est |-> Num(-110000), price_max_ok |-> Num(-120000), ev_ok |-> Bool(TRUE),
     reason |-> Undefined]

\* a Watch row of /report
RowWatch ==
    [tier |-> Str(<<"W", "a", "t", "c", "h">>), side |-> Str(<<"a", "w", "a", "y">>), away |-> Str(<<"C">>), home |-> Str(<<"A">>),
     market_spread_home |-> Num(2500), fair_home_spread |-> Null,
     required_buy_points |-> Num(500), buy_to_line |-> Num(3000),
     p_current |-> Num(600), p_target |-> Num(650), p_buy |-> Num(660),
     price_est |-> Null, price_max_ok |-> Num(-135000), ev_ok |-> Null,
     reason |-> Undefined]

\* a Garbage row as mapPlayToRow makes it from a play that has only a reason
\* (side "none", away and home "", everything else null)
RowGarbage ==
    [tier |-> Str(<<"G", "a", "r", "b", "a", "g", "e">>), side |-> Str(<<"n", "o", "n", "e">>), away |-> Str(<<>>), home |-> Str(<<>>),
     market_spread_home |-> Null, fair_home_spread |-> Null,
     required_buy_points |-> Null, buy_to_line |-> Null,
     p_current |-> Null, p_target |-> Null, p_buy |-> Null,
     price_est |-> Null, price_max_ok |-> Null, ev_ok |-> Null,
     reason |-> Str(<<"n", "o", ",", " ", "\"", "B", "\"", "\n">>)]

\* a row of /report with keys missing, a team name that holds a comma and
\* double quotes and a team name that holds a line feed
RowSparse ==
    [tier |-> Str(<<"F", "i", "r", "e">>), side |-> Undefined, away |-> Str(<<"B", ",", "\"", "C", "\"">>), home |-> Str(<<"C", "\n", "D">>),
     market_spread_home |-> Undefined, fair_home_spread |-> Num(-1000),
     required_buy_points |-> Undefined, buy_to_line |-> Undefined,
     p_current |-> Num(700), p_target |-> Num(650), p_buy |-> Undefined,
     price_est |-> Num(120000), price_max_ok |-> Num(100000), ev_ok |-> Bool(FALSE),
     reason |-> Null]

SampleRows == {RowFire, RowWatch, RowGarbage, RowSparse}

RowSeqs == UNION {[1..n -> SampleRows] : n \in 0..MaxRows}

\* <span title={explain(r)}> of every row of the rendered table
Titles(seq) == [i \in 1..Len(seq) |-> explain(seq[i])]

\* onClick that keeps the direction when another column is chosen
ClickHeaderKeepsDir(h) ==
    /\ UiVisible
    /\ IF sortKey = h
       THEN /\ sortDir' = (IF sortDir = "asc" THEN "desc" ELSE "asc")
            /\ UNCHANGED sortKey
       ELSE /\ sortKey' = h
            /\ UNCHANGED sortDir
    /\ \E algorithm \in SortAlgorithms :
          sorted' = sortRows(rows, sortKey', sortDir', algorithm)
    /\ titles' = Titles(sorted')
    /\ UNCHANGED <<rows, plays, csv, download, homeVars>>

\* onClick of a column header, and the render that follows it
ClickHeader(h) ==
    /\ UiVisible
    /\ IF sortKey = h
       THEN /\ sortDir' = (IF sortDir = "asc" THEN "desc" ELSE "asc")
            /\ UNCHANGED sortKey
       ELSE /\ sortKey' = h
            /\ sortDir' = "asc"
    /\ \E algorithm \in SortAlgorithms :
          sorted' = sortRows(rows, sortKey', sortDir', algorithm)
    /\ titles' = Titles(sorted')
    /\ UNCHANGED <<rows, plays, csv, download, homeVars>>

\* the three tables, each with its Export CSV button
Tables == {"fire", "watch", "garbage"}

\* t.toFixed(2) of a number given in hundredths
ToFixed2(t) ==
    Digits(t \div 100) \o <<".", DigitChars[((t \div 10) % 10) + 1], DigitChars[(t % 10) + 1]>>

\* `wpp-${which}-${metric}-p${target.toFixed(2)}.csv`
FileName(which) ==
    <<"wpp-", which, "-", metric, "-p">> \o ToFixed2(target) \o <<".csv">>

\* exportCsv(which): the text put into the Blob and the name of the download
ExportCsv(which) ==
    /\ UiVisible
    /\ csv' = rowsToCsv(rows)
    /\ download' = FileName(which)
    /\ UNCHANGED <<rows, plays, sorted, titles, sortKey, sortDir, homeVars>>

ExportAny == \E which \in Tables : ExportCsv(which)

\* Home once its first refresh cycle has fulfilled and the debounce timeout of
\* the mount has expired
HomeIdle ==
    LET c == NewCycle(1, "spread", InitTarget)
    IN  /\ mounted = TRUE
        /\ metric = "spread"
        /\ target = InitTarget
        /\ debouncedTarget = InitTarget
        /\ debounceArmed = FALSE
        /\ fire = Part("fire", 1, c.report)
        /\ watch = Part("watch", 1, c.report)
        /\ garbage = Part("garbage", 1, c.garbage)
        /\ byTier = Part("byTier", 1, c.report)
        /\ rate = Part("rate", 1, c.report)
        /\ cache = Part("cache", 1, c.report)
        /\ err = NoErr
        /\ loading = FALSE
        /\ lastUpdated = 1
        /\ autoRefresh = TRUE
        /\ refreshSecs = InitRefreshSecs
        /\ timerRef = 1
        /\ armed = {[id |-> 1, metric |-> "spread", target_prob |-> InitTarget,
                     period |-> Max(MinRefreshSecs, InitRefreshSecs) * 1000]}
        /\ inflight = {}
        /\ ignored = {}
        /\ nextReq = 2
        /\ anyFailed = FALSE
        /\ burst = "none"

\* a table of rows as its first render shows it
InitTable ==
    /\ HomeIdle
    /\ sortKey = "required_buy_points"
    /\ sortDir = "asc"
    /\ rows \in RowSeqs
    /\ sorted \in {sortRows(rows, "required_buy_points", "asc", a) : a \in SortAlgorithms}
    /\ titles = Titles(sorted)
    /\ csv = <<>>
    /\ plays = <<>>
    /\ download = <<>>

ClickAnyHeader == \E i \in 1..Len(HeaderKeys) : ClickHeader(HeaderKeys[i])

NextTable ==
    \/ ClickAnyHeader
    \/ ExportAny

SpecTable == InitTable /\ [][NextTable]_vars

\* rows for the tooltips: every tier with every combination of a reason that
\* is missing, empty or set, of known and unknown probabilities, prices and
\* ev_ok
ExplainRows ==
    {[RowFire EXCEPT !.tier = t, !.reason = why, !.p_buy = pb, !.p_target = pt,
                     !.price_est = pe, !.price_max_ok = pmax, !.ev_ok = ev] :
        t \in {RowFire.tier, RowWatch.tier, RowGarbage.tier},
        why \in {Undefined, Str(<<>>), RowGarbage.reason},
        pb \in {Null, Num(600), Num(700)},
        pt \in {Null, Num(650)},
        pe \in {Null, Num(-110000), Num(120000)},
        pmax \in {Undefined, Num(-120000)},
        ev \in {Null, Bool(TRUE), Bool(FALSE)}}

\* a table of one row as its first render shows it
InitExplain ==
    /\ HomeIdle
    /\ sortKey = "required_buy_points"
    /\ sortDir = "asc"
    /\ rows \in {<<r>> : r \in ExplainRows}
    /\ sorted \in {sortRows(rows, "required_buy_points", "asc", a) : a \in SortAlgorithms}
    /\ titles = Titles(sorted)
    /\ csv = <<>>
    /\ plays = <<>>
    /\ download = <<>>

SpecExplain == InitExplain /\ [][NextTable]_vars

\* raw plays of a /best_edges response: keys and objects missing, null or set,
\* the home spread under either, both or none of its two paths
SamplePlays ==
    {[tier |-> t, recommendation |-> rec, game |-> game, market |-> market,
      fair |-> fair, prob |-> prob, pricing |-> pricing,
      required |-> [buy_points |-> Num(500), buy_to_line |-> Undefined],
      reason |-> RowGarbage.reason] :
        t \in {Undefined, Null, RowWatch.tier},
        rec \in {Undefined, RowFire.side},
        game \in {Undefined,
                  [away |-> Undefined, home |-> Str(<<"B">>)],
                  [away |-> Str(<<"A">>), home |-> Null]},
        market \in {Undefined,
                    [spread_home |-> Undefined, spread |-> Undefined],
                    [spread_home |-> Undefined, spread |-> [home |-> Num(2500)]],
                    [spread_home |-> Null, spread |-> [home |-> Num(2500)]],
                    [spread_home |-> Num(0), spread |-> [home |-> Num(2500)]],
                    [spread_home |-> Num(-3500), spread |-> Null]},
        fair \in {Null, [home_spread |-> Num(-4500)]},
        prob \in {Undefined,
                  [current |-> Num(600), target |-> Num(650), buy |-> Null]},
        pricing \in {Undefined,
                     [final_price |-> Num(-110000), max_acceptable_price |-> Undefined,
                      ev_ok |-> Bool(FALSE)]}}

\* the Garbage table of one mapped play as its first render shows it
InitPlays ==
    /\ HomeIdle
    /\ sortKey = "required_buy_points"
    /\ sortDir = "asc"
    /\ plays \in {<<p>> : p \in SamplePlays}
    /\ rows = MapPlays(plays)
    /\ sorted \in {sortRows(rows, "required_buy_points", "asc", a) : a \in SortAlgorithms}
    /\ titles = Titles(sorted)
    /\ csv = <<>>
    /\ download = <<>>

SpecPlays == InitPlays /\ [][NextTable]_vars

\* Home with its export buttons: changes of the target, the debounce, the
\* settlement of the calls and the exports
NextExport ==
    \/ ChangeTarget
    \/ DebounceFire
    \/ ReportSettles
    \/ GarbageSettles
    \/ ExportAny

SpecExport == Init /\ [][NextExport]_vars

----------------------------------------------------------------------------
(* Properties of the refresh scheduler, checked under Spec (C8: SpecCalls) *)

Calls == {"report", "garbage"}
CurrentParams == <<metric, debouncedTarget>>
ParamsOf(x) == <<x.metric, x.target_prob>>
DisplayedParts == {fire, watch, garbage, byTier, rate, cache}
ResultOf(c) ==
    {Part("fire", c.id, c.report), Part("watch", c.id, c.report),
     Part("byTier", c.id, c.report), Part("rate", c.id, c.report),
     Part("cache", c.id, c.report), Part("garbage", c.id, c.garbage)}
StatusFailure(resp) == ~ResOk(resp)
StatusMessage(which, resp) == <<"WPP ", Label(which), " failed: ", resp.status>>
NamesEndpointAndStatus(message) ==
    /\ Len(message) = 4
    /\ message[2] \in {ReportLabel, GarbageLabel}
    /\ message[4] \in {r.status : r \in {x \in Responses : StatusFailure(x)}}

\* a step in which a call of a cycle in flight settles: only such a step
\* takes a cycle out of inflight, or changes one, without starting another
SettleStep == mounted' /\ nextReq' = nextReq /\ inflight' # inflight

\* a step in which the Promise.all of cycle c settles
CycleEnds(c) == SettleStep /\ inflight' = inflight \ {c}

\* the step in which the Promise.all of cycle c fulfils
Fulfils(c) ==
    /\ CycleEnds(c)
    /\ \E which \in Calls, resp \in Responses :
          /\ c[Other(which)].st = "ok"
          /\ CallOutcome(Label(which), resp).ok
          /\ Settle(c, which, resp)

\* the step in which call which of cycle c answers resp and by that rejects
\* the Promise.all of c
Rejects(c, which, resp) ==
    /\ CycleEnds(c)
    /\ ~CallOutcome(Label(which), resp).ok
    /\ Settle(c, which, resp)

\* the step in which the timeout of useDebounced expires
DebounceSettles == mounted' /\ debounceArmed /\ ~debounceArmed'

\* C1: a refresh started under older parameters that completes after a
\* refresh started later, under the current parameters, has completed and is
\* displayed, does not change the displayed FetchResult.
C1_StaleCompletionDiscarded ==
    [][\A c \in inflight :
          ( /\ Fulfils(c)
            /\ ParamsOf(c.report) # CurrentParams
            /\ fire.req > c.id
            /\ ParamsOf(fire) = CurrentParams )
          => UNCHANGED Display]_vars

\* C2 as stated: when the debounce settles after several changes of target,
\* exactly one refresh cycle is issued, and it uses the final target.
C2_ExactlyOneFetchAfterBurst ==
    [][(DebounceSettles /\ burst = "several")
          => /\ nextReq' = nextReq + 1
             /\ inflight' = inflight \cup {NewCycle(nextReq, metric, target)}]_vars

\* C2 as amended: a change of target issues no refresh cycle and leaves
\* debouncedTarget alone; when the debounce settles after several changes,
\* exactly one refresh cycle is issued, with the final target, if the final
\* target differs from the debounced target in effect before the changes, and
\* none is issued if it equals it.
C2_DebounceCollapsesBurst ==
    [][ /\ (target' # target) => UNCHANGED <<inflight, nextReq, debouncedTarget>>
        /\ (DebounceSettles /\ burst = "several")
              => /\ debouncedTarget' = target
                 /\ IF target # debouncedTarget
                    THEN /\ nextReq' = nextReq + 1
                         /\ inflight' = inflight \cup {NewCycle(nextReq, metric, target)}
                    ELSE UNCHANGED <<inflight, nextReq>> ]_vars

\* C2 witness: the debounce has settled after several changes and the one
\* cycle it issued, for the final target, is in flight.
C2_Witness ==
    /\ mounted /\ ~debounceArmed /\ burst = "several"
    /\ debouncedTarget = target /\ target # InitTarget
    /\ \E c \in inflight : c.id = nextReq - 1 /\ ParamsOf(c.report) = <<metric, target>>

\* C3 as stated: while auto-refresh stays off, the only step that starts a
\* refresh cycle is the manual trigger.
C3_OnlyManualWhileOff ==
    [][(~autoRefresh /\ ~autoRefresh' /\ nextReq' # nextReq) => ManualRefresh]_vars

\* C3 as amended: whenever auto-refresh is off no interval timer is armed (so
\* no tick starts a refresh), and while it stays off a refresh cycle is
\* started only by the manual trigger or by a change of the parameters
\* (metric, or the debounced target).
C3_OffCancelsTimer ==
    [][ /\ (mounted' /\ ~autoRefresh') => (armed' = {} /\ timerRef' = 0)
        /\ (~autoRefresh /\ ~autoRefresh' /\ nextReq' # nextReq)
              => (ManualRefresh \/ ChangeMetric \/ DebounceFire) ]_vars

\* C3 witness: auto-refresh is off, no timer is armed, and a refresh cycle
\* started since it was switched off is in flight.
C3_Witness ==
    /\ mounted /\ ~autoRefresh /\ armed = {} /\ timerRef = 0
    /\ loading /\ inflight # {}

\* C4: a refresh cycle that fails sets the error message, ends loading, and
\* leaves every part of the displayed FetchResult as it was.
C4_FailureKeepsDisplay ==
    [][\A c \in inflight :
          CycleEnds(c)
          => \A which \in Calls, resp \in Responses :
                Rejects(c, which, resp)
                => /\ err' = CallOutcome(Label(which), resp).message
                   /\ err' # NoErr
                   /\ ~loading'
                   /\ UNCHANGED Display]_vars

\* C4 witness: an error is surfaced while the result of an earlier, successful
\* cycle is still the displayed one.
C4_Witness ==
    /\ mounted /\ err # NoErr /\ ~loading
    /\ lastUpdated > 0 /\ fire.req = lastUpdated /\ garbage.req = lastUpdated

\* some step that starts a refresh cycle by a tick or by the manual trigger
TickOrManual == ManualRefresh \/ IntervalTick

\* C5: in every state in which an error is surfaced (and nothing else is
\* pending that would start a cycle by itself), a refresh cycle can be started
\* by a tick of the interval timer or by the manual trigger.
C5_ErrorNotAbsorbing ==
    ( /\ mounted /\ err # NoErr
      /\ inflight = {} /\ ~debounceArmed
      /\ nextReq <= MaxFetches )
    => ENABLED TickOrManual

\* C6: right after a refresh cycle fulfils, no error is surfaced, loading is
\* false, the displayed FetchResult is that cycle's, and lastUpdated is set.
C6_SuccessEntersIdle ==
    [][\A c \in inflight :
          Fulfils(c)
          => /\ err' = NoErr
             /\ ~loading'
             /\ DisplayedParts' = ResultOf(c)
             /\ lastUpdated' # 0]_vars

\* C7: once the parameters have settled and every refresh cycle started so far
\* has completed successfully, the displayed FetchResult is the one of the most
\* recently started cycle, fetched for the current parameters.
C7_LastInitiatedWins ==
    ( /\ mounted /\ inflight = {} /\ ~anyFailed
      /\ ~debounceArmed /\ target = debouncedTarget )
    => \A p \in DisplayedParts : p.req = nextReq - 1 /\ ParamsOf(p) = CurrentParams

\* C8 as stated: both calls of a cycle carry the same metric and target
\* probability (garbage edges with n = 25), the cycle succeeds only if both
\* return a success status, and whenever a call of the cycle returns a
\* non-success status the message the cycle surfaces names an endpoint and its
\* status code; this includes the call that settles after the cycle has failed.
C8_ErrorNamesFailingEndpoint ==
    [][ /\ \A c \in inflight, which \in Calls, resp \in Responses :
             (SettleStep /\ StatusFailure(resp) /\ SettleTracked(c, which, resp))
             => NamesEndpointAndStatus(err')
        /\ \A z \in ignored, resp \in Responses :
             (LateSettle(z, resp) /\ StatusFailure(resp))
             => NamesEndpointAndStatus(z.message) ]_vars

\* C8 as amended: both calls of a cycle carry the same metric and target
\* probability (garbage edges with n = 25); the cycle succeeds only if both
\* return a success status; a call that returns a non-success status while the
\* cycle has not failed yet makes the cycle surface the message naming that
\* endpoint and that status code.  (The message surfaced is the one of the
\* first call to fail.)
C8_FirstFailureSurfaced ==
    [][ /\ \A c \in inflight' :
             /\ ParamsOf(c.report) = ParamsOf(c.garbage)
             /\ c.garbage.n = GarbageN /\ c.garbage.tier = "garbage"
        /\ \A c \in inflight, which \in Calls, resp \in Responses :
             /\ (SettleStep /\ lastUpdated' # lastUpdated /\ SettleTracked(c, which, resp))
                => (ResOk(resp) /\ c[Other(which)].st = "ok")
             /\ (SettleStep /\ StatusFailure(resp) /\ SettleTracked(c, which, resp))
                => (err' = StatusMessage(which, resp) /\ ~loading') ]_vars

\* C8 witness: the garbage call has returned 500 and the error naming it is
\* surfaced.
C8_Witness ==
    /\ mounted /\ ~loading
    /\ err = <<"WPP ", GarbageLabel, " failed: ", 500>>

----------------------------------------------------------------------------
(* Properties of the table layer, checked under SpecTable *)

\* the key of row r is null or undefined under sort key key
NullKey(r, key) == IsNullish(KeyValue(r, key))

\* how many elements of seq equal x
Count(seq, x) == Cardinality({i \in 1..Len(seq) : seq[i] = x})

\* C9: in the rows sortRows returns, for every sort key and both directions,
\* no row whose key value is null or undefined comes before a row whose key
\* value is non-null; the result holds the rows of the input, each as often.
C9_NullKeysLast ==
    /\ \A i, j \in 1..Len(sorted) :
          (i < j /\ NullKey(sorted[i], sortKey)) => NullKey(sorted[j], sortKey)
    /\ Len(sorted) = Len(rows)
    /\ \A r \in SampleRows : Count(sorted, r) = Count(rows, r)

\* C9 witness: sorted descending, with a null-keyed row that stood first in
\* the input now behind a row with a key.
C9_Witness ==
    /\ sortDir = "desc"
    /\ Len(rows) >= 2
    /\ NullKey(rows[1], sortKey)
    /\ ~NullKey(sorted[1], sortKey)
    /\ NullKey(sorted[Len(sorted)], sortKey)

\* a quoted field without its quotes, each doubled quote in it made one
Unquote(f) ==
    IF Len(f) >= 2 /\ f[1] = "\"" /\ f[Len(f)] = "\""
    THEN LET inner == SubSeq(f, 2, Len(f) - 1)
             marked == [p \in 1..Len(inner) |->
                          [ch |-> inner[p],
                           keep |-> \/ inner[p] # "\""
                                    \/ Cardinality({q \in 1..p : inner[q] = "\""}) % 2 = 0]]
             Kept(e) == e.keep
             kept == SelectSeq(marked, Kept)
         IN  [p \in 1..Len(kept) |-> kept[p].ch]
    ELSE f

\* CSV text cut into records and fields: fields are separated by commas
\* outside quotes, records by line feeds outside quotes.  The fields are as
\* they stand in the text, quotes included.
SplitCsv(text) ==
    LET n == Len(text)
        quotes == {j \in 1..n : text[j] = "\""}
        Outside(i) == Cardinality({q \in quotes : q < i}) % 2 = 0
        breaks == {i \in 1..n : text[i] = "\n" /\ Outside(i)}
        commas == {i \in 1..n : text[i] = "," /\ Outside(i)}
        Pieces(lo, hi, seps) ==
            LET inside == {i \in seps : lo <= i /\ i <= hi}
                m == Cardinality(inside)
                Nth(k) == CHOOSE i \in inside : Cardinality({j \in inside : j < i}) = k - 1
            IN  [k \in 1..(m + 1) |->
                   [lo |-> IF k = 1 THEN lo ELSE Nth(k - 1) + 1,
                    hi |-> IF k = m + 1 THEN hi ELSE Nth(k) - 1]]
        Record(line) ==
            LET fields == Pieces(line.lo, line.hi, commas)
            IN  [k \in 1..Len(fields) |-> SubSeq(text, fields[k].lo, fields[k].hi)]
        lines == Pieces(1, n, breaks)
    IN  [k \in 1..Len(lines) |-> Record(lines[k])]

\* a reader of CSV text: the records of the text, each the sequence of its
\* fields, unquoted
ReadCsv(text) ==
    LET raw == SplitCsv(text)
    IN  [k \in 1..Len(raw) |-> [i \in 1..Len(raw[k]) |-> Unquote(raw[k][i])]]

\* the names of the columns of record 1 of the text
CsvColumns(text) ==
    LET header == ReadCsv(text)[1]
    IN  [i \in 1..Len(header) |-> IF Len(header[i]) = 1 THEN header[i][1] ELSE "?"]

\* C10 as stated: the exported CSV has no tier column: its header is side,
\* away, home, the market figures, the buy figures, the probabilities, the
\* prices and ev_ok, and every data record has exactly those columns.
C10_NoTierColumn ==
    csv # <<>>
    => /\ CsvColumns(csv) = CsvHeadersWithoutTier
       /\ \A k \in 1..Len(ReadCsv(csv)) : Len(ReadCsv(csv)[k]) = Len(CsvHeadersWithoutTier)

\* C10 as amended: the exported CSV has a tier column, the first one: its
\* header is tier, side, away, home, the market figures, the buy figures, the
\* probabilities, the prices and ev_ok, in that order; there is one data
\* record per row, with exactly those fourteen columns, the first holding the
\* row's tier.
C10_TierColumnFirst ==
    csv # <<>>
    => LET records == ReadCsv(csv)
       IN  /\ CsvColumns(csv) =
                <<"tier">> \o CsvHeadersWithoutTier
           /\ Len(records) = Len(rows) + 1
           /\ \A k \in 1..Len(rows) :
                 /\ Len(records[k + 1]) = Len(CsvHeadersWithoutTier) + 1
                 /\ records[k + 1][1] = ToStr(rows[k].tier)

\* C10 witness: a CSV of at least two rows has been exported, one of them a
\* row whose team names hold a comma, a quote and a line feed.
C10_Witness ==
    /\ csv # <<>>
    /\ Len(rows) >= 2
    /\ \E k \in 1..Len(rows) : rows[k] = RowSparse

\* text.split("\n"): the pieces of the text between its line feeds
SplitLines(text) ==
    LET breaks == {i \in 1..Len(text) : text[i] = "\n"}
        m == Cardinality(breaks)
        Nth(k) == CHOOSE i \in breaks : Cardinality({j \in breaks : j < i}) = k - 1
    IN  [k \in 1..(m + 1) |->
           SubSeq(text, IF k = 1 THEN 1 ELSE Nth(k - 1) + 1,
                        IF k = m + 1 THEN Len(text) ELSE Nth(k) - 1)]

\* the columns of the export, in order
ExportColumns == <<"tier">> \o CsvHeadersWithoutTier

\* the string form of a field: String(v), and the empty string for null and
\* undefined
StringForm(v) == IF IsNullish(v) THEN <<>> ELSE ToStr(v)

\* the fields a reader of the CSV is to find for row r
RecordOf(r) == [i \in 1..Len(ExportColumns) |-> StringForm(r[ExportColumns[i]])]

\* the number of line feeds inside the exported fields of the rows rs
LineFeedsIn(rs) ==
    Cardinality(UNION {LET str == StringForm(rs[f[1]][ExportColumns[f[2]]])
                       IN  {<<f, p>> : p \in {q \in 1..Len(str) : str[q] = "\n"}} :
                       f \in (1..Len(rs)) \X (1..Len(ExportColumns))})

\* C11 as stated: the exported text, split on "\n", is the header line
\* followed by exactly rows.length lines, line k + 1 being the line of row k,
\* also when string fields of the rows hold commas, quotes or line feeds.
C11_OneLinePerRow ==
    csv # <<>>
    => /\ Len(SplitLines(csv)) = Len(rows) + 1
       /\ \A k \in 1..Len(rows) :
             k + 1 <= Len(SplitLines(csv))
             => SplitLines(csv)[k + 1] = CsvRow(rows[k], ExportColumns)

\* C11 as amended: read as CSV (a line feed inside quotes belongs to its
\* field) the exported text is the header record followed by exactly
\* rows.length data records, record k + 1 holding the fields of row k; split
\* on "\n" it has rows.length + 1 lines plus one line for every line feed that
\* the exported fields hold, so exactly rows.length + 1 when they hold none.
C11_OneRecordPerRow ==
    csv # <<>>
    => LET records == ReadCsv(csv)
       IN  /\ Len(records) = Len(rows) + 1
           /\ \A k \in 1..Len(rows) : records[k + 1] = RecordOf(rows[k])
           /\ Len(SplitLines(csv)) = Len(rows) + 1 + LineFeedsIn(rows)

\* C11 witness: an export of two different rows, the first with a line feed
\* in a team name, the second with only empty fields after side.
C11_Witness ==
    /\ csv # <<>>
    /\ Len(rows) = 2
    /\ rows[1] = RowSparse
    /\ rows[2] = RowGarbage
    /\ LineFeedsIn(rows) = 1
    /\ Len(SplitLines(csv)) = 4

\* the number of double quotes in str
QuotesIn(str) == Cardinality({p \in 1..Len(str) : str[p] = "\""})

\* C12: cut at the commas and line feeds outside quotes, every data record of
\* the export has one field per column; each field is wrapped in double
\* quotes, holds every double quote of the value twice, and is "" for null and
\* undefined; taking the quotes off and un-doubling gives back the string form
\* of every non-null value exactly.
C12_FieldRoundTrip ==
    csv # <<>>
    => LET raw == SplitCsv(csv)
       IN  /\ Len(raw) = Len(rows) + 1
           /\ \A k \in 1..Len(rows) :
                 /\ Len(raw[k + 1]) = Len(ExportColumns)
                 /\ \A i \in 1..Len(ExportColumns) :
                       LET v == rows[k][ExportColumns[i]]
                           field == raw[k + 1][i]
                       IN  /\ Len(field) >= 2
                           /\ field[1] = "\""
                           /\ field[Len(field)] = "\""
                           /\ IsNullish(v) => field = <<"\"", "\"">>
                           /\ ~IsNullish(v) =>
                                 /\ QuotesIn(field) = 2 + 2 * QuotesIn(ToStr(v))
                                 /\ Unquote(field) = ToStr(v)

\* C12 witness: an export that holds a row with quotes, a comma and a line
\* feed in its strings, with numbers, a boolean and missing values, and a row
\* with null values.
C12_Witness ==
    /\ csv # <<>>
    /\ \E k \in 1..Len(rows) : rows[k] = RowSparse
    /\ \E k \in 1..Len(rows) : rows[k] = RowWatch
    /\ SplitCsv(csv)[2][3] # <<"\"">> \o rows[1].away.s \o <<"\"">>

----------------------------------------------------------------------------
(* Properties of explain, checked under SpecExplain *)

\* the row's reason is set: a non-empty string
ReasonSet(r) == r.reason.t = "string" /\ r.reason.s # <<>>

\* C13: the tooltip of every rendered row is a non-empty string, and the
\* tooltip of a row whose tier is Garbage and whose reason is set is exactly
\* that reason, whatever its probabilities and prices are.
C13_ExplainNonEmptyReasonVerbatim ==
    /\ Len(titles) = Len(sorted)
    /\ \A i \in 1..Len(sorted) :
          /\ titles[i] # <<>>
          /\ \A p \in 1..Len(titles[i]) : titles[i][p] # ""
          /\ (sorted[i].tier = RowGarbage.tier /\ ReasonSet(sorted[i]))
             => titles[i] = sorted[i].reason.s

\* C13 witness: after a click on the p(buy) header, a Garbage row with a
\* reason, whose p(buy) is known and below its known p(target) and whose price
\* is known, shows the reason.
C13_Witness ==
    /\ Len(sorted) = 1
    /\ sorted[1].tier = RowGarbage.tier
    /\ ReasonSet(sorted[1])
    /\ sorted[1].p_buy = Num(600)
    /\ sorted[1].p_target = Num(650)
    /\ ~IsNullish(sorted[1].price_est)
    /\ sortKey = "p_buy"
    /\ titles[1] = RowGarbage.reason.s

\* the tooltip holds an EV-check clause
HasEvClause(title) == \E p \in 1..Len(title) : title[p] = " EV check at est price "

\* the row is a Fire or a Watch row
FireOrWatch(r) == r.tier \in {RowFire.tier, RowWatch.tier}

\* the base sentence of the row's tier
BaseOf(r) == IF r.tier = RowFire.tier THEN FireBase(r) ELSE WatchBase(r)

\* both prices of the row are known
PricesKnown(r) == ~IsNullish(r.price_est) /\ ~IsNullish(r.price_max_ok)

\* the title is the base sentence followed by an EV-check clause that ends in
\* the given word
BaseThenClause(title, r, word) ==
    LET base == BaseOf(r)
        n == Len(title)
    IN  /\ n = Len(base) + Len(fmtPrice(r.price_est)) + Len(fmtPrice(r.price_max_ok)) + 5
        /\ SubSeq(title, 1, Len(base)) = base
        /\ title[Len(base) + 1] = " EV check at est price "
        /\ SubSeq(title, n - 2, n) = <<": ", word, ".">>

\* C14 as stated: the tooltip of a Fire or Watch row is the tier's base
\* sentence followed by the EV-check clause, stating OK or FAIL, when both
\* prices are known, and the base sentence alone when a price is unknown.
C14_EvClauseWhenPricesKnown ==
    \A i \in 1..Len(sorted) :
       FireOrWatch(sorted[i])
       => IF PricesKnown(sorted[i])
          THEN \/ BaseThenClause(titles[i], sorted[i], "OK")
               \/ BaseThenClause(titles[i], sorted[i], "FAIL")
          ELSE titles[i] = BaseOf(sorted[i])

\* C14 as amended: the tooltip of a Fire or Watch row is the tier's base
\* sentence followed by the EV-check clause when both prices and ev_ok are
\* known, the clause stating OK when ev_ok is true and FAIL when it is false;
\* when a price or ev_ok is unknown it is the base sentence alone.
C14_EvClauseWhenPricesAndEvKnown ==
    \A i \in 1..Len(sorted) :
       FireOrWatch(sorted[i])
       => IF PricesKnown(sorted[i]) /\ ~IsNullish(sorted[i].ev_ok)
          THEN BaseThenClause(titles[i], sorted[i],
                              IF sorted[i].ev_ok = Bool(TRUE) THEN "OK" ELSE "FAIL")
          ELSE /\ titles[i] = BaseOf(sorted[i])
               /\ ~HasEvClause(titles[i])

\* C14 witness: after a click on the EV ok header, a Watch row with both
\* prices known and ev_ok false shows the clause with FAIL.
C14_Witness ==
    /\ Len(sorted) = 1
    /\ sorted[1].tier = RowWatch.tier
    /\ PricesKnown(sorted[1])
    /\ sorted[1].ev_ok = Bool(FALSE)
    /\ sortKey = "ev_ok"
    /\ HasEvClause(titles[1])
    /\ titles[1][Len(titles[1]) - 1] = "FAIL"

----------------------------------------------------------------------------
(* Properties of mapPlayToRow, checked under SpecPlays *)

\* the value is absent: the key is missing or holds null
Absent(v) == v = Null \/ v = Undefined

\* the fields of a row other than tier and market_spread_home, each with the
\* object and the key of the raw play it is read from ("" for the play itself)
FieldPaths ==
    {<<"side", "", "recommendation">>, <<"away", "game", "away">>,
     <<"home", "game", "home">>, <<"fair_home_spread", "fair", "home_spread">>,
     <<"required_buy_points", "required", "buy_points">>,
     <<"buy_to_line", "required", "buy_to_line">>,
     <<"p_current", "prob", "current">>, <<"p_target", "prob", "target">>,
     <<"p_buy", "prob", "buy">>, <<"price_est", "pricing", "final_price">>,
     <<"price_max_ok", "pricing", "max_acceptable_price">>,
     <<"ev_ok", "pricing", "ev_ok">>, <<"reason", "", "reason">>}

\* the value the raw play p holds under the path
AtPath(p, path) ==
    IF path[2] = "" THEN p[path[3]]
    ELSE IF Absent(p[path[2]]) THEN Undefined ELSE p[path[2]][path[3]]

\* the home spread under the path market.spread_home, and under market.spread.home
FlatSpread(p) == IF Absent(p.market) THEN Undefined ELSE p.market.spread_home
NestedSpread(p) ==
    IF Absent(p.market) THEN Undefined
    ELSE IF Absent(p.market.spread) THEN Undefined ELSE p.market.spread.home

\* tier and market_spread_home of the row of play p are as C15 says
TierAndSpreadMapped(p, r) ==
    /\ Absent(p.tier) => r.tier = Str(<<"G", "a", "r", "b", "a", "g", "e">>)
    /\ ~Absent(p.tier) => r.tier = p.tier
    /\ r.market_spread_home =
          (IF ~Absent(FlatSpread(p)) THEN FlatSpread(p)
           ELSE IF ~Absent(NestedSpread(p)) THEN NestedSpread(p)
           ELSE Null)

\* C15 as stated: in the row of every raw play, every field absent under all
\* its source paths is null, tier is "Garbage" when the play has no tier, and
\* market_spread_home is market.spread_home if present and otherwise
\* market.spread.home.
C15_AbsentFieldsNull ==
    /\ Len(rows) = Len(plays)
    /\ \A i \in 1..Len(plays) :
          /\ TierAndSpreadMapped(plays[i], rows[i])
          /\ \A path \in FieldPaths :
                Absent(AtPath(plays[i], path)) => rows[i][path[1]] = Null

\* the value mapPlayToRow gives a field that is absent
DefaultOf(field) ==
    CASE field = "side" -> Str(<<"n", "o", "n", "e">>)
      [] field \in {"away", "home"} -> Str(<<>>)
      [] OTHER -> Null

\* C15 as amended: in the row of every raw play, a field absent (missing or
\* null) under all its source paths is null, except side, which is "none", and
\* away and home, which are the empty string; a field that is present has the
\* play's value; tier is "Garbage" when the play has no tier; and
\* market_spread_home is market.spread_home if present and otherwise
\* market.spread.home.
C15_AbsentFieldsDefault ==
    /\ Len(rows) = Len(plays)
    /\ \A i \in 1..Len(plays) :
          /\ TierAndSpreadMapped(plays[i], rows[i])
          /\ \A path \in FieldPaths :
                rows[i][path[1]] =
                   (IF Absent(AtPath(plays[i], path)) THEN DefaultOf(path[1])
                    ELSE AtPath(plays[i], path))

\* C15 witness: the rendered row of a play without tier, recommendation, game
\* and prob, whose market.spread_home is null and whose market.spread.home is
\* 2.5, after a click on a header.
C15_Witness ==
    /\ Len(plays) = 1
    /\ sortDir = "desc"
    /\ plays[1].tier = Undefined
    /\ plays[1].recommendation = Undefined
    /\ plays[1].game = Undefined
    /\ plays[1].prob = Undefined
    /\ plays[1].market = [spread_home |-> Null, spread |-> [home |-> Num(2500)]]
    /\ rows[1].market_spread_home = Num(2500)
    /\ rows[1].tier = RowGarbage.tier
    /\ rows[1].p_buy = Null
    /\ sorted = rows

----------------------------------------------------------------------------
(* Properties of the timers and of the controls, checked under Spec *)

\* the step changes the interval while auto-refresh is on, or turns
\* auto-refresh on
RestartsTimer ==
    /\ mounted'
    /\ \/ autoRefresh /\ autoRefresh' /\ refreshSecs' # refreshSecs
       \/ ~autoRefresh /\ autoRefresh'

\* C16: a step that changes the refresh interval while auto-refresh is on, or
\* turns auto-refresh on again, leaves exactly one armed timer, the one
\* timerRef names, newly armed by that step with the period max(5,
\* refreshSecs) seconds, every timer armed before being cancelled; no armed
\* timer ever has a period below 5 seconds; and a tick starts the refresh
\* cycle "Refresh now" would start: one new cycle for the current metric and
\* debounced target, loading set and the error cleared.
C16_TimerRestartsWithMinimumPeriod ==
    [][ /\ RestartsTimer
           => /\ Cardinality(armed') = 1
              /\ \A h \in armed' :
                    /\ h.id = timerRef'
                    /\ h.period = (IF refreshSecs' < 5 THEN 5 ELSE refreshSecs') * 1000
                    /\ h.metric = metric'
                    /\ h.target_prob = debouncedTarget'
              /\ nextReq' = nextReq
        /\ \A h \in armed' : h.period >= 5000
        /\ IntervalTick
           => /\ inflight' = inflight \cup {NewCycle(nextReq, metric, debouncedTarget)}
              /\ nextReq' = nextReq + 1
              /\ loading'
              /\ err' = NoErr
              /\ UNCHANGED <<armed, timerRef, Display>> ]_vars

\* C16 witness: the interval has been set to 3 seconds with auto-refresh on,
\* the one armed timer has the period 5 seconds, and a refresh cycle started
\* after that is in flight.
C16_Witness ==
    /\ mounted
    /\ autoRefresh
    /\ refreshSecs = 3
    /\ armed # {}
    /\ \A h \in armed : h.period = 5000 /\ h.id = timerRef
    /\ \E c \in inflight : c.id >= 2

\* the columns whose header can be clicked
Columns == {HeaderKeys[i] : i \in 1..Len(HeaderKeys)}

\* C17: a click on the header of the column that is the current sortKey flips
\* sortDir between asc and desc and leaves sortKey unchanged; a click on any
\* other header sets sortKey to that column and sortDir to asc; no other step
\* changes sortKey or sortDir; and sortDir is always asc or desc.
C17_SortControl ==
    [][ /\ \A h \in Columns :
              ClickHeader(h)
              => IF h = sortKey
                 THEN /\ sortKey' = sortKey
                      /\ sortDir' = (IF sortDir = "asc" THEN "desc" ELSE "asc")
                 ELSE /\ sortKey' = h
                      /\ sortDir' = "asc"
        /\ ~ClickAnyHeader => UNCHANGED <<sortKey, sortDir>>
        /\ sortDir \in {"asc", "desc"}
        /\ sortDir' \in {"asc", "desc"}
        /\ sortKey' \in Columns ]_vars

\* C17 witness: after clicks on other columns, the side header has been
\* clicked twice: the table is sorted by side, descending.
C17_Witness ==
    /\ sortKey = "side"
    /\ sortDir = "desc"
    /\ Len(sorted) = 2
    /\ csv # <<>>

\* C18 as stated: while Home is mounted, loading is true exactly when at least
\* one refresh cycle started by doFetch is still in flight, also when refresh
\* cycles overlap.
C18_LoadingIffInFlight ==
    mounted => (loading <=> inflight # {})

\* C19: at most one interval timer is armed at any time; exactly one, the one
\* timerRef names, while Home is mounted with auto-refresh on; none while
\* auto-refresh is off and none after the unmount.
C19_AtMostOneTimer ==
    /\ Cardinality(armed) <= 1
    /\ (mounted /\ autoRefresh) => (Cardinality(armed) = 1 /\ \A h \in armed : h.id = timerRef)
    /\ ~autoRefresh => armed = {}
    /\ ~mounted => armed = {}

\* C19 witness: Home has been unmounted with auto-refresh on, after the
\* interval and the metric were changed; no timer is armed.
C19_Witness ==
    /\ ~mounted
    /\ autoRefresh
    /\ refreshSecs = 3
    /\ metric = "total"
    /\ timerRef # 0
    /\ armed = {}

----------------------------------------------------------------------------
(* Properties of the export, checked under SpecExport *)

\* the stored result the table which shows and exportCsv(which) exports
Exported(which) ==
    CASE which = "fire" -> fire
      [] which = "watch" -> watch
      [] which = "garbage" -> garbage

\* C20 as stated: every export names its file wpp-<tier>-<metric>-p<targetProb>.csv
\* with the metric and the target probability under which the exported rows
\* were fetched, also while a change of the target is inside its debounce
\* window or a refresh for new parameters has not completed.
C20_FileNameMatchesRows ==
    [][\A which \in Tables :
          ExportCsv(which)
          => download' = <<"wpp-", which, "-", Exported(which).metric, "-p">>
                         \o ToFixed2(Exported(which).target_prob) \o <<".csv">>]_vars

====
